---- MODULE Spec2Model ----
(***************************************************************************)
(* Verification model of the two lab programs of the repository:           *)
(*   - the text-file analyzer (performFileAnalysis, reportResults), and    *)
(*   - the prefix-expression evaluator (evaluatePrefixValue).              *)
(* Characters are one-character strings; a C++ std::string is a sequence   *)
(* of such characters.                                                     *)
(***************************************************************************)
EXTENDS Integers, Sequences, FiniteSets, TLC

VARIABLES
    pc,               \* position inside the running function
    \* ---- performFileAnalysis ----
    listing,          \* the directory: one record per .txt file, in listing order
    fileIdx,          \* position of the range-for over fileNames
    rdpos,            \* read position of the ifstream fileRead (1-based)
    line,             \* the string filled by getline
    ci,               \* position of the range-for over line
    scanned,          \* history: the characters bound to c by the inner loop so far
    lineCounter, wordCounter, vowelCounter, consonantCounter, charCounter,
    words,            \* vector<string> words
    fileData,         \* vector<FileAnalysis> fileData (the result)
    \* ---- reportResults ----
    results,          \* the vector<FileAnalysis> handed to reportResults
    canCreate,        \* whether ofstream fileOutput(reportPath) opens
    ri,               \* position of the range-for over results
    report,           \* what was written to fileOutput: the header's total and one block per record
    \* ---- evaluatePrefixValue ----
    expression,       \* the input string
    tokens,           \* stack<string> tokens (top is the last element)
    solutionStack,    \* stack<double> solutionStack (top is the last element)
    answer            \* the value returned

analysisVars == <<listing, fileIdx, rdpos, line, ci, scanned, lineCounter, wordCounter,
                  vowelCounter, consonantCounter, charCounter, words, fileData>>
reportVars == <<results, canCreate, ri, report>>
prefixVars == <<expression, tokens, solutionStack, answer>>
vars == <<pc, analysisVars, reportVars, prefixVars>>

---------------------------------------------------------------------------
(* Bounds of the explored inputs *)

MaxLen == 4          \* longest content of a lone file
MaxFiles == 3        \* most files in a multi-file directory
MaxRecords == 2      \* most records handed to reportResults
MaxTokens == 5       \* most tokens of an explored prefix expression

---------------------------------------------------------------------------
(* <cctype> classification in the "C" locale, for ASCII characters *)

Lower == {"a","b","c","d","e","f","g","h","i","j","k","l","m",
          "n","o","p","q","r","s","t","u","v","w","x","y","z"}
Upper == {"A","B","C","D","E","F","G","H","I","J","K","L","M",
          "N","O","P","Q","R","S","T","U","V","W","X","Y","Z"}
Digits == {"0","1","2","3","4","5","6","7","8","9"}

isalpha(c) == c \in Lower \cup Upper
isdigit(c) == c \in Digits
isspace(c) == c \in {" ", "\t", "\n", "\r", "\f"}

\* the vowel test of the scan
isVowel(c) == c \in {"a","e","i","o","u","A","E","I","O","U"}

---------------------------------------------------------------------------
(* Sequence helpers *)

Last(s) == s[Len(s)]
Front(s) == SubSeq(s, 1, Len(s) - 1)

RECURSIVE CountIf(_, _)
CountIf(T(_), s) ==
    IF s = <<>> THEN 0
    ELSE (IF T(Head(s)) THEN 1 ELSE 0) + CountIf(T, Tail(s))

\* all sequences over S of length at most n
SeqsUpTo(S, n) == UNION {[1..k -> S] : k \in 0..n}

---------------------------------------------------------------------------
(* performFileAnalysis: inputs *)

\* A std::string literal as a sequence of characters.
the == <<"t","h","e">>
stopWords ==
    { the, <<"a","n","d">>, <<"i","n">>, <<"o","f">>, <<"o","n">>, <<"a">>,
      <<"a","n">>, <<"i","s">>, <<"i","t">>, <<"t","o">>, <<"f","o","r">>,
      <<"w","i","t","h">>, <<"a","t">>, <<"b","y">>, <<"f","r","o","m">>,
      <<"t","h","a","t">>, <<"t","h","i","s">>, <<"t","h","e","s","e">>,
      <<"t","h","o","s","e">>, <<"a","s">>, <<"b","e">>, <<"b","e","e","n">>,
      <<"a","r","e">>, <<"w","a","s">>, <<"w","e","r","e">>, <<"o","r">>,
      <<"b","u","t">>, <<"i","f">>, <<"t","h","e","n">>, <<"s","o">>,
      <<"b","e","c","a","u","s","e">>, <<" ">> }

\* the characters the explored files are made of: a vowel (also the stop word
\* "a"), a consonant, a digit, two blanks, the line break and a symbol
FileChars == {"a", "b", "1", " ", "\t", "\n", "."}
\* the contents of the files of the explored multi-file directories
DirContents == {<<>>, <<"b", " ", "a">>, <<" ", "\n">>}

\* the sample line of the specification's test list
SampleLine == the \o <<" ","q","u","i","c","k"," ","b","r","o","w","n"," ","f","o","x">>

\* A directory entry: getFileNamesInDirectory yields the names; whether the
\* ifstream opens and what it then reads belong to the file.  An unopenable
\* file's content is never read and is left empty.
File(n, o, c) == [fileName |-> n, openable |-> o, content |-> c]

LoneFiles == {<<File(1, TRUE, c)>> : c \in SeqsUpTo(FileChars, MaxLen) \cup {SampleLine}}
DirFiles == {[openable |-> TRUE, content |-> c] : c \in DirContents}
                \cup {[openable |-> FALSE, content |-> <<>>]}
Directories ==
    {[i \in DOMAIN d |-> File(i, d[i].openable, d[i].content)] : d \in SeqsUpTo(DirFiles, MaxFiles)}
Listings == LoneFiles \cup Directories

---------------------------------------------------------------------------
(* performFileAnalysis: helpers *)

\* index of the first "\n" of s at or after position p, or Len(s) + 1
RECURSIVE NextNewline(_, _)
NextNewline(s, p) ==
    IF p > Len(s) \/ s[p] = "\n" THEN p ELSE NextNewline(s, p + 1)

\* number of elements of s equal to w
Occurrences(s, w) == Cardinality({i \in DOMAIN s : s[i] = w})

\* the unordered_map<string,int> built from words
BuildWordCount(ws) ==
    LET kept == {ws[i] : i \in {j \in DOMAIN ws : ws[j] # <<>> /\ ws[j] \notin stopWords}}
    IN  [w \in kept |-> Occurrences(ws, w)]

\* every order std::sort may leave the map's pairs in: the comparator only
\* orders by descending count, ties fall as the map and the sort leave them
SortedCommonWords(m) ==
    LET pairs == {<<w, m[w]>> : w \in DOMAIN m}
        size == Cardinality(pairs)
    IN  {s \in [1..size -> pairs] :
            /\ \A i, j \in 1..size : i # j => s[i] # s[j]
            /\ \A i \in 1..size : \A j \in 1..size : i < j => s[i][2] >= s[j][2]}

\* AvgWordLength dividing by one word too many.
AvgWordLength_OffByOne(charCnt, wordCnt) ==
    IF wordCnt = 0 THEN 0 ELSE charCnt \div (wordCnt + 1)

\* analysis.avgWordLength
AvgWordLength(charCnt, wordCnt) ==
    IF wordCnt = 0 THEN 0 ELSE charCnt \div wordCnt

CurFile == listing[fileIdx]

---------------------------------------------------------------------------
(* performFileAnalysis: the steps *)

unusedReport == /\ results = <<>> /\ canCreate = FALSE /\ ri = 0 /\ report = [total |-> 0, blocks |-> <<>>]
unusedPrefix == /\ expression = <<>> /\ tokens = <<>> /\ solutionStack = <<>> /\ answer = <<0, 1>>

InitAnalysis ==
    /\ pc = "for"
    /\ listing \in Listings
    /\ fileIdx = 1
    /\ rdpos = 1 /\ line = <<>> /\ ci = 1 /\ scanned = <<>>
    /\ lineCounter = 0 /\ wordCounter = 0 /\ vowelCounter = 0
    /\ consonantCounter = 0 /\ charCounter = 0
    /\ words = <<>>
    /\ fileData = <<>>
    /\ unusedReport
    /\ unusedPrefix

\* OpenFail leaving the loop (break) instead of continuing with the next name.
OpenFail_Break ==
    /\ pc = "for" /\ fileIdx <= Len(listing)
    /\ ~CurFile.openable
    /\ fileIdx' = Len(listing) + 1
    /\ UNCHANGED <<pc, listing, rdpos, line, ci, scanned, lineCounter, wordCounter,
                   vowelCounter, consonantCounter, charCounter, words, fileData>>
    /\ UNCHANGED <<reportVars, prefixVars>>

\* the ifstream does not open: report and continue with the next name
OpenFail ==
    /\ pc = "for" /\ fileIdx <= Len(listing)
    /\ ~CurFile.openable
    /\ fileIdx' = fileIdx + 1
    /\ UNCHANGED <<pc, listing, rdpos, line, ci, scanned, lineCounter, wordCounter,
                   vowelCounter, consonantCounter, charCounter, words, fileData>>
    /\ UNCHANGED <<reportVars, prefixVars>>

\* the ifstream opens: fresh words, counters and line
OpenOk ==
    /\ pc = "for" /\ fileIdx <= Len(listing)
    /\ CurFile.openable
    /\ pc' = "getline"
    /\ rdpos' = 1 /\ line' = <<>> /\ ci' = 1 /\ scanned' = <<>>
    /\ lineCounter' = 0 /\ wordCounter' = 0 /\ vowelCounter' = 0
    /\ consonantCounter' = 0 /\ charCounter' = 0
    /\ words' = <<>>
    /\ UNCHANGED <<listing, fileIdx, fileData>>
    /\ UNCHANGED <<reportVars, prefixVars>>

\* GetLine counting only the lines that hold a character.
GetLine_SkipEmpty ==
    /\ pc = "getline" /\ rdpos <= Len(CurFile.content)
    /\ LET nl == NextNewline(CurFile.content, rdpos)
           ln == SubSeq(CurFile.content, rdpos, nl - 1)
       IN  /\ line' = ln
           /\ rdpos' = nl + 1
           /\ pc' = IF ln = <<>> THEN "getline" ELSE "chars"
           /\ lineCounter' = lineCounter + (IF ln = <<>> THEN 0 ELSE 1)
    /\ ci' = 1
    /\ UNCHANGED <<listing, fileIdx, scanned, wordCounter, vowelCounter,
                   consonantCounter, charCounter, words, fileData>>
    /\ UNCHANGED <<reportVars, prefixVars>>

\* getline succeeds: the characters up to the next "\n" (which is dropped) or
\* to the end of the file become line
GetLine ==
    /\ pc = "getline" /\ rdpos <= Len(CurFile.content)
    /\ LET nl == NextNewline(CurFile.content, rdpos)
           ln == SubSeq(CurFile.content, rdpos, nl - 1)
       IN  /\ line' = ln
           /\ rdpos' = nl + 1
           /\ pc' = IF ln = <<>> THEN "getline" ELSE "chars"
    /\ lineCounter' = lineCounter + 1
    /\ ci' = 1
    /\ UNCHANGED <<listing, fileIdx, scanned, wordCounter, vowelCounter,
                   consonantCounter, charCounter, words, fileData>>
    /\ UNCHANGED <<reportVars, prefixVars>>

\* Bucket with the whitespace branch forgotten: a blank falls through to the
\* final else and is counted as a character.
Bucket_NoSpaceBranch(c) ==
    IF isalpha(c) THEN (IF isVowel(c) THEN "vowel" ELSE "consonant")
    ELSE IF isdigit(c) THEN "digit"
    ELSE "other"

\* Bucket with the final else forgotten: whatever is no letter and no digit
\* ends the word, and a symbol is not counted as a character.
Bucket_NoSymbolBranch(c) ==
    IF isalpha(c) THEN (IF isVowel(c) THEN "vowel" ELSE "consonant")
    ELSE IF isdigit(c) THEN "digit"
    ELSE "space"

\* the if-chain that classifies one character
Bucket(c) ==
    IF isalpha(c) THEN (IF isVowel(c) THEN "vowel" ELSE "consonant")
    ELSE IF isdigit(c) THEN "digit"
    ELSE IF isspace(c) THEN "space"
    ELSE "other"

\* one iteration of the loop over line.  The buffer singleWord is declared
\* inside the loop body: every iteration starts with an empty one, and the
\* character a letter or digit iteration pushes into it is gone when the
\* iteration ends.
ProcessChar ==
    /\ pc = "chars"
    /\ LET c == line[ci]
           b == Bucket(c)
           singleWord == <<>>
       IN  /\ scanned' = Append(scanned, c)
           /\ vowelCounter' = vowelCounter + (IF b = "vowel" THEN 1 ELSE 0)
           /\ consonantCounter' = consonantCounter + (IF b = "consonant" THEN 1 ELSE 0)
           /\ charCounter' = charCounter + (IF b # "space" THEN 1 ELSE 0)
           /\ wordCounter' = wordCounter + (IF b = "space" THEN 1 ELSE 0)
           /\ words' = IF b = "space" THEN Append(words, singleWord) ELSE words
    /\ IF ci < Len(line)
       THEN ci' = ci + 1 /\ pc' = pc
       ELSE ci' = 1 /\ pc' = "getline"
    /\ UNCHANGED <<listing, fileIdx, rdpos, line, lineCounter, fileData>>
    /\ UNCHANGED <<reportVars, prefixVars>>

\* getline fails at the end of the file: count the words, sort, fill the
\* record and append it
FinishFile ==
    /\ pc = "getline" /\ rdpos > Len(CurFile.content)
    /\ \E cw \in SortedCommonWords(BuildWordCount(words)) :
         fileData' = Append(fileData,
             [fileName |-> CurFile.fileName,
              lineCount |-> lineCounter,
              wordCount |-> wordCounter,
              commonWords |-> cw,
              avgWordLength |-> AvgWordLength(charCounter, wordCounter),
              charCount |-> charCounter,
              vowelCount |-> vowelCounter,
              consonantCount |-> consonantCounter])
    /\ fileIdx' = fileIdx + 1
    /\ pc' = "for"
    /\ UNCHANGED <<listing, rdpos, line, ci, scanned, lineCounter, wordCounter,
                   vowelCounter, consonantCounter, charCounter, words>>
    /\ UNCHANGED <<reportVars, prefixVars>>

\* the loop over fileNames is over: return fileData
ReturnFileData ==
    /\ pc = "for" /\ fileIdx > Len(listing)
    /\ pc' = "done"
    /\ UNCHANGED <<analysisVars, reportVars, prefixVars>>

NextAnalysis ==
    \/ OpenFail
    \/ OpenOk
    \/ GetLine
    \/ ProcessChar
    \/ FinishFile
    \/ ReturnFileData

Spec == InitAnalysis /\ [][NextAnalysis]_vars

---------------------------------------------------------------------------
(* Properties of performFileAnalysis *)

\* the file a record of fileData was made from
ContentOf(rec) == listing[rec.fileName].content
Records == {fileData[i] : i \in DOMAIN fileData}

Blank(c) == c \in {" ", "\t", "\n"}
LineBreak(c) == c = "\n"
NonBlank(c) == ~Blank(c)
LetterOrDigit(c) == c \in Lower \cup Upper \cup Digits
DigitChar(c) == c \in Digits
SymbolChar(c) == ~Blank(c) /\ ~LetterOrDigit(c)
VowelChar(c) == c \in {"a","e","i","o","u","A","E","I","O","U"}
ConsonantChar(c) == c \in Lower \cup Upper /\ ~VowelChar(c)

\* one line of non-empty words of characters from W, single spaces between
\* them, nothing before the first and after the last word
IsSpacedLine(s, W) ==
    /\ s # <<>>
    /\ \A i \in DOMAIN s : s[i] \in W \cup {" "}
    /\ s[1] # " " /\ s[Len(s)] # " "
    /\ \A i \in 1..(Len(s) - 1) : ~(s[i] = " " /\ s[i + 1] = " ")

\* the words of such a line, in order
RECURSIVE SpacedWords(_)
SpacedWords(s) ==
    IF s = <<>> THEN <<>>
    ELSE LET k == CHOOSE j \in 1..(Len(s) + 1) :
                      /\ (j = Len(s) + 1 \/ s[j] = " ")
                      /\ \A i \in 1..(j - 1) : s[i] # " "
         IN  <<SubSeq(s, 1, k - 1)>> \o SpacedWords(SubSeq(s, k + 1, Len(s)))

\* the lines getline reads from a file: one per line break, and one more for
\* what follows the last line break
NumLines(s) ==
    CountIf(LineBreak, s) + (IF s # <<>> /\ s[Len(s)] # "\n" THEN 1 ELSE 0)

\* C1: for a file that is one line of lowercase words separated by single
\* spaces, commonWords holds exactly one (word, count) pair for every distinct
\* word that is no stop word, count being its number of occurrences.
C1_CommonWordsOfLine ==
    \A rec \in Records :
        IsSpacedLine(ContentOf(rec), Lower) =>
            LET ws == SpacedWords(ContentOf(rec))
                expected == {<<ws[i], Occurrences(ws, ws[i])>> :
                                i \in {j \in DOMAIN ws : ws[j] \notin stopWords}}
            IN  /\ {rec.commonWords[i] : i \in DOMAIN rec.commonWords} = expected
                /\ Len(rec.commonWords) = Cardinality(expected)

\* C2: for a file that is one line of k >= 1 non-empty words separated by
\* single spaces, the record's wordCount is k.
C2_WordCountOfLine ==
    \A rec \in Records :
        IsSpacedLine(ContentOf(rec), {c \in FileChars \cup Lower : NonBlank(c)}) =>
            rec.wordCount = Len(SpacedWords(ContentOf(rec)))

\* C3 as stated: every non-empty file made of whitespace only gets
\* wordCount >= 1 and lineCount equal to the number of lines read.
C3_WhitespaceFileOriginal ==
    \A rec \in Records :
        (ContentOf(rec) # <<>> /\ \A i \in DOMAIN ContentOf(rec) : Blank(ContentOf(rec)[i])) =>
            /\ rec.wordCount >= 1
            /\ rec.lineCount = NumLines(ContentOf(rec))

\* C3 amended: every file made of whitespace only that holds at least one
\* whitespace character other than a line break gets wordCount >= 1 and
\* lineCount equal to the number of lines read; a file of line breaks only
\* gets wordCount = 0 and the same lineCount.
C3_WhitespaceFile ==
    \A rec \in Records :
        (ContentOf(rec) # <<>> /\ \A i \in DOMAIN ContentOf(rec) : Blank(ContentOf(rec)[i])) =>
            /\ (\E i \in DOMAIN ContentOf(rec) : ContentOf(rec)[i] # "\n") => rec.wordCount >= 1
            /\ (\A i \in DOMAIN ContentOf(rec) : ContentOf(rec)[i] = "\n") => rec.wordCount = 0
            /\ rec.lineCount = NumLines(ContentOf(rec))

\* a file of a tab, two line breaks and a space: two words, three lines
C3_Witness ==
    /\ pc = "done"
    /\ \E rec \in Records :
        /\ ContentOf(rec) = <<"\t", "\n", "\n", " ">>
        /\ rec.wordCount = 2
        /\ rec.lineCount = 3

\* C4: after every character of the scan, charCounter is the sum of the
\* vowels, the consonants, the digits and the symbols seen; the vowel and
\* consonant counters count exactly the vowels and the consonants, so a
\* whitespace character changes none of the three.
C4_Buckets ==
    /\ charCounter = vowelCounter + consonantCounter
                        + CountIf(DigitChar, scanned) + CountIf(SymbolChar, scanned)
    /\ vowelCounter = CountIf(VowelChar, scanned)
    /\ consonantCounter = CountIf(ConsonantChar, scanned)
    /\ \A rec \in Records :
          rec.charCount = rec.vowelCount + rec.consonantCount
                            + CountIf(DigitChar, ContentOf(rec))
                            + CountIf(SymbolChar, ContentOf(rec))

\* the scan of "a 1." after the digit and before the symbol
C4_Witness ==
    /\ pc = "chars"
    /\ scanned = <<"a", " ", "1">>
    /\ line[ci] = "."
    /\ charCounter = 2 /\ vowelCounter = 1 /\ consonantCounter = 0

\* C5 as stated: charCount is the number of letters plus the number of
\* digits of the file.
C5_CharCountOriginal ==
    \A rec \in Records :
        rec.charCount = CountIf(LetterOrDigit, ContentOf(rec))

\* C5 amended: charCount is the number of characters of the file that are
\* not whitespace: letters, digits, and punctuation and symbols too.
C5_CharCount ==
    \A rec \in Records :
        rec.charCount = CountIf(NonBlank, ContentOf(rec))

\* the file "b. 1": a letter, a symbol and a digit are counted, the space is not
C5_Witness ==
    /\ pc = "done"
    /\ \E rec \in Records :
        /\ ContentOf(rec) = <<"b", ".", " ", "1">>
        /\ rec.charCount = 3

\* the names of the openable files among the first n of the listing, in order
RECURSIVE OpenableNames(_)
OpenableNames(n) ==
    IF n = 0 THEN <<>>
    ELSE OpenableNames(n - 1) \o (IF listing[n].openable THEN <<listing[n].fileName>> ELSE <<>>)

\* C6: an unopenable file is skipped and the others are still analysed: the
\* function does not stop before it has visited every listed file, and the
\* list it returns holds one record per openable file, in listing order.
C6_SkipUnopenable ==
    /\ pc \in {"for", "done"} =>
          [i \in DOMAIN fileData |-> fileData[i].fileName]
              = OpenableNames(IF fileIdx > Len(listing) THEN Len(listing) ELSE fileIdx - 1)
    /\ pc = "done" => fileIdx = Len(listing) + 1
    /\ pc # "done" => ENABLED NextAnalysis

\* three files, the first and the third unopenable: one record, of the second
C6_Witness ==
    /\ pc = "done"
    /\ Len(listing) = 3
    /\ ~listing[1].openable /\ listing[2].openable /\ ~listing[3].openable
    /\ Len(fileData) = 1 /\ fileData[1].fileName = 2

\* C7: avgWordLength is charCount div wordCount when wordCount > 0 and 0
\* when wordCount = 0, charCount and wordCount being the counts the scan took
\* of the file (its non-whitespace characters and its whitespace characters
\* other than line breaks).
C7_AvgWordLength ==
    \A rec \in Records :
        /\ rec.wordCount > 0 => rec.avgWordLength = rec.charCount \div rec.wordCount
        /\ rec.wordCount = 0 => rec.avgWordLength = 0
        /\ rec.charCount = CountIf(NonBlank, ContentOf(rec))
        /\ rec.wordCount = CountIf(Blank, ContentOf(rec)) - CountIf(LineBreak, ContentOf(rec))

\* the sample line: 16 characters in 3 counted words, 16 div 3 = 5
C7_Witness ==
    /\ pc = "done"
    /\ \E rec \in Records :
        /\ ContentOf(rec) = SampleLine
        /\ rec.charCount = 16 /\ rec.wordCount = 3 /\ rec.avgWordLength = 5

\* the letters and digits of s that follow its last whitespace character
RECURSIVE PendingWord(_)
PendingWord(s) ==
    IF s = <<>> \/ Blank(Last(s)) THEN <<>>
    ELSE PendingWord(Front(s)) \o (IF LetterOrDigit(Last(s)) THEN <<Last(s)>> ELSE <<>>)

\* C9: the word emitted when a whitespace character is read is the sequence
\* of the letters and digits read since the previous whitespace character.
C9_EmittedWord ==
    (scanned # <<>> /\ Blank(Last(scanned))) =>
        /\ words # <<>>
        /\ Last(words) = PendingWord(Front(scanned))

---------------------------------------------------------------------------
(* reportResults *)

\* const int n = 5: the number of common words a block shows
n == 5

DigitChars == <<"0","1","2","3","4","5","6","7","8","9">>

\* operator<< of a non-negative integer: its decimal digits
RECURSIVE Decimal(_)
Decimal(v) ==
    IF v < 10 THEN <<DigitChars[v + 1]>>
    ELSE Decimal(v \div 10) \o <<DigitChars[(v % 10) + 1]>>

RECURSIVE Pow10(_)
Pow10(k) == IF k = 0 THEN 1 ELSE 10 * Pow10(k - 1)

RECURSIVE StripZeros(_)
StripZeros(ds) ==
    IF Len(ds) > 1 /\ Last(ds) = "0" THEN StripZeros(Front(ds)) ELSE ds

\* operator<< of a double holding the non-negative whole number v, with the
\* stream's default flags (printf's %g with precision 6): the digits of v when
\* it has at most six of them, else v rounded to six significant digits
\* (half to even), in scientific notation with trailing zeros dropped.
FormatDouble(v) ==
    LET e == Len(Decimal(v)) - 1
    IN  IF e < 6 THEN Decimal(v)
        ELSE LET p == Pow10(e - 5)
                 q == v \div p
                 r == v % p
                 m0 == IF 2 * r > p \/ (2 * r = p /\ q % 2 = 1) THEN q + 1 ELSE q
                 m == IF m0 = Pow10(6) THEN Pow10(5) ELSE m0
                 e2 == IF m0 = Pow10(6) THEN e + 1 ELSE e
                 md == StripZeros(Decimal(m))
             IN  <<Head(md)>> \o (IF Len(md) > 1 THEN <<".">> \o Tail(md) ELSE <<>>)
                    \o <<"e", "+">> \o (IF e2 < 10 THEN <<"0">> ELSE <<>>) \o Decimal(e2)

\* the conditional expression written after "1 : ": both arms are converted to
\* double, the second after the integer division of the two size_t counts
RatioText(analysis) ==
    IF analysis.vowelCount = 0 THEN FormatDouble(0)
    ELSE FormatDouble(analysis.consonantCount \div analysis.vowelCount)

\* the (word, count) pairs the loop over commonWords writes
ShownWords(cw) == SubSeq(cw, 1, IF Len(cw) < n THEN Len(cw) ELSE n)

\* the block written for one record
Block(analysis) ==
    [fileName |-> analysis.fileName,
     lineCount |-> Decimal(analysis.lineCount),
     wordCount |-> Decimal(analysis.wordCount),
     commonWords |-> ShownWords(analysis.commonWords),
     avgWordLength |-> Decimal(analysis.avgWordLength),
     ratio |-> RatioText(analysis),
     consonantCount |-> Decimal(analysis.consonantCount),
     charCount |-> Decimal(analysis.charCount)]

\* The records explored: what performFileAnalysis returns for a file of one
\* line with one blank, v vowels and c consonants (no word is ever kept, so
\* commonWords is empty).  The large counts are those of files of a few
\* megabytes.
VowelSamples == {0, 1, 3}
ConsonantSamples == {0, 7, 999999, 1234567, 3000000}
SampleRecord(i, v, c) ==
    [fileName |-> i, lineCount |-> 1, wordCount |-> 1, commonWords |-> <<>>,
     avgWordLength |-> AvgWordLength(v + c, 1), charCount |-> v + c,
     vowelCount |-> v, consonantCount |-> c]
SampleResults ==
    {[i \in DOMAIN s |-> SampleRecord(i, s[i][1], s[i][2])] :
        s \in SeqsUpTo(VowelSamples \X ConsonantSamples, MaxRecords)}

unusedAnalysis ==
    /\ listing = <<>> /\ fileIdx = 1 /\ rdpos = 1 /\ line = <<>> /\ ci = 1
    /\ scanned = <<>> /\ lineCounter = 0 /\ wordCounter = 0 /\ vowelCounter = 0
    /\ consonantCounter = 0 /\ charCounter = 0 /\ words = <<>> /\ fileData = <<>>

InitReport ==
    /\ pc = "open"
    /\ results \in SampleResults
    /\ canCreate \in BOOLEAN
    /\ ri = 1
    /\ report = [total |-> 0, blocks |-> <<>>]
    /\ unusedAnalysis
    /\ unusedPrefix

\* the report file cannot be created: return
CreateFail ==
    /\ pc = "open" /\ ~canCreate
    /\ pc' = "returned"
    /\ UNCHANGED <<reportVars, analysisVars, prefixVars>>

\* the report file is created: write the header
CreateOk ==
    /\ pc = "open" /\ canCreate
    /\ report' = [report EXCEPT !.total = Len(results)]
    /\ pc' = "write"
    /\ UNCHANGED <<results, canCreate, ri, analysisVars, prefixVars>>

\* one iteration of the loop over results
WriteBlock ==
    /\ pc = "write" /\ ri <= Len(results)
    /\ report' = [report EXCEPT !.blocks = Append(@, Block(results[ri]))]
    /\ ri' = ri + 1
    /\ UNCHANGED <<pc, results, canCreate, analysisVars, prefixVars>>

\* the loop is over: close the file
CloseReport ==
    /\ pc = "write" /\ ri > Len(results)
    /\ pc' = "returned"
    /\ UNCHANGED <<reportVars, analysisVars, prefixVars>>

NextReport ==
    \/ CreateFail
    \/ CreateOk
    \/ WriteBlock
    \/ CloseReport

SpecReport == InitReport /\ [][NextReport]_vars

---------------------------------------------------------------------------
(* Properties of reportResults *)

DigitValue(c) == CHOOSE d \in 0..9 : DigitChars[d + 1] = c

RECURSIVE NumberOf(_)
NumberOf(ds) ==
    IF ds = <<>> THEN 0 ELSE 10 * NumberOf(Front(ds)) + DigitValue(Last(ds))

NotPoint(c) == c # "."

\* the number a written text denotes: plain digits, or d.ddddde+XX
ValueOf(text) ==
    IF \A i \in DOMAIN text : text[i] # "e" THEN NumberOf(text)
    ELSE LET k == CHOOSE i \in DOMAIN text : text[i] = "e"
             digits == SelectSeq(SubSeq(text, 1, k - 1), NotPoint)
             ex == NumberOf(SubSeq(text, k + 2, Len(text)))
         IN  NumberOf(digits) * Pow10(ex - (Len(digits) - 1))

\* C8: the value written after "1 : " is 0 when vowelCount = 0 and
\* consonantCount div vowelCount otherwise.
C8_RatioWritten ==
    \A k \in DOMAIN report.blocks :
        ValueOf(report.blocks[k].ratio) =
            IF results[k].vowelCount = 0 THEN 0
            ELSE results[k].consonantCount \div results[k].vowelCount

---------------------------------------------------------------------------
(* evaluatePrefixValue *)

\* A double is modelled by the rational <<numerator, denominator>> in lowest
\* terms, denominator > 0; the explored values are small whole numbers and
\* their quotients.
RECURSIVE Gcd(_, _)
Gcd(a, b) == IF b = 0 THEN a ELSE Gcd(b, a % b)
Abs(a) == IF a < 0 THEN -a ELSE a
Rat(a, b) ==
    LET g == Gcd(Abs(a), Abs(b))
        sgn == IF b < 0 THEN -1 ELSE 1
    IN  <<(sgn * a) \div g, (sgn * b) \div g>>

isOperator(op) == op \in {<<"+">>, <<"-">>, <<"*">>, <<"/">>}

applyOperator(op, left, right) ==
    IF op = <<"+">> THEN Rat(left[1] * right[2] + right[1] * left[2], left[2] * right[2])
    ELSE IF op = <<"-">> THEN Rat(left[1] * right[2] - right[1] * left[2], left[2] * right[2])
    ELSE IF op = <<"*">> THEN Rat(left[1] * right[1], left[2] * right[2])
    ELSE IF op = <<"/">>
         THEN (IF right[1] = 0 THEN <<0, 1>> ELSE Rat(left[1] * right[2], left[2] * right[1]))
    ELSE <<0, 1>>

isUselessToken(t) ==
    t \in {<<"(">>, <<")">>, <<"[">>, <<"]">>, <<"{">>, <<"}">>, <<",">>, <<>>}

\* operator>> into a string, repeated to the end of the stream: the maximal
\* runs of characters that are not whitespace, in order
RECURSIVE Tokenize(_)
Tokenize(s) ==
    IF s = <<>> THEN <<>>
    ELSE IF isspace(Head(s)) THEN Tokenize(Tail(s))
    ELSE LET k == CHOOSE j \in 1..Len(s) :
                      /\ \A i \in 1..j : ~isspace(s[i])
                      /\ (j = Len(s) \/ isspace(s[j + 1]))
         IN  <<SubSeq(s, 1, k)>> \o Tokenize(SubSeq(s, k + 1, Len(s)))

\* the leading digits of s
RECURSIVE LeadingDigits(_)
LeadingDigits(s) ==
    IF s = <<>> \/ ~isdigit(Head(s)) THEN <<>>
    ELSE <<Head(s)>> \o LeadingDigits(Tail(s))

RECURSIVE DigitsValue(_)
DigitsValue(ds) ==
    IF ds = <<>> THEN 0
    ELSE 10 * DigitsValue(Front(ds)) + (CHOOSE d \in 0..9 : DigitChars[d + 1] = Last(ds))

\* stod on a token without a decimal point, an exponent or a special name:
\* an optional sign, then the longest run of digits; what follows is ignored;
\* no digit at all is invalid_argument
stodSigned(t) == t # <<>> /\ Head(t) \in {"+", "-"}
stodDigits(t) == LeadingDigits(IF stodSigned(t) THEN Tail(t) ELSE t)
stodValid(t) == stodDigits(t) # <<>>
stod(t) ==
    <<(IF t # <<>> /\ Head(t) = "-" THEN -1 ELSE 1) * DigitsValue(stodDigits(t)), 1>>

\* the explored inputs: up to MaxTokens tokens, single spaces between them
TokenSamples ==
    {<<"+">>, <<"-">>, <<"*">>, <<"/">>, <<"(">>, <<"x">>, <<"3">>, <<"1", "2">>}

RECURSIVE Join(_)
Join(ts) ==
    IF ts = <<>> THEN <<>>
    ELSE IF Len(ts) = 1 THEN ts[1]
    ELSE ts[1] \o <<" ">> \o Join(Tail(ts))

PrefixInputs == {Join(ts) : ts \in SeqsUpTo(TokenSamples, MaxTokens)}

InitPrefix ==
    /\ pc = "tokenize"
    /\ expression \in PrefixInputs
    /\ tokens = <<>>
    /\ solutionStack = <<>>
    /\ answer = <<0, 1>>
    /\ unusedAnalysis
    /\ unusedReport

\* the first loop: every token of the input is pushed on tokens
PushTokens ==
    /\ pc = "tokenize"
    /\ tokens' = Tokenize(expression)
    /\ pc' = "eval"
    /\ UNCHANGED <<expression, solutionStack, answer, analysisVars, reportVars>>

\* a bracket or a comma is popped and skipped
SkipUseless ==
    /\ pc = "eval" /\ tokens # <<>>
    /\ isUselessToken(Last(tokens))
    /\ tokens' = Front(tokens)
    /\ UNCHANGED <<pc, expression, solutionStack, answer, analysisVars, reportVars>>

\* an operator is popped: right is the top of solutionStack, left the value
\* under it (each 0 when the stack has run empty), and the result is pushed
ApplyOperator ==
    /\ pc = "eval" /\ tokens # <<>>
    /\ ~isUselessToken(Last(tokens)) /\ isOperator(Last(tokens))
    /\ LET right == IF solutionStack # <<>> THEN Last(solutionStack) ELSE <<0, 1>>
           s1 == IF solutionStack # <<>> THEN Front(solutionStack) ELSE solutionStack
           left == IF s1 # <<>> THEN Last(s1) ELSE <<0, 1>>
           s2 == IF s1 # <<>> THEN Front(s1) ELSE s1
       IN  solutionStack' = Append(s2, applyOperator(Last(tokens), left, right))
    /\ tokens' = Front(tokens)
    /\ UNCHANGED <<pc, expression, answer, analysisVars, reportVars>>

\* a number is popped, converted and pushed
PushNumber ==
    /\ pc = "eval" /\ tokens # <<>>
    /\ ~isUselessToken(Last(tokens)) /\ ~isOperator(Last(tokens))
    /\ stodValid(Last(tokens))
    /\ solutionStack' = Append(solutionStack, stod(Last(tokens)))
    /\ tokens' = Front(tokens)
    /\ UNCHANGED <<pc, expression, answer, analysisVars, reportVars>>

\* stod throws invalid_argument: the token is ignored
IgnoreInvalid ==
    /\ pc = "eval" /\ tokens # <<>>
    /\ ~isUselessToken(Last(tokens)) /\ ~isOperator(Last(tokens))
    /\ ~stodValid(Last(tokens))
    /\ tokens' = Front(tokens)
    /\ UNCHANGED <<pc, expression, solutionStack, answer, analysisVars, reportVars>>

\* no token is left: return the top of solutionStack, or 0
ReturnAnswer ==
    /\ pc = "eval" /\ tokens = <<>>
    /\ answer' = IF solutionStack = <<>> THEN <<0, 1>> ELSE Last(solutionStack)
    /\ pc' = "evaluated"
    /\ UNCHANGED <<expression, tokens, solutionStack, analysisVars, reportVars>>

NextPrefix ==
    \/ PushTokens
    \/ SkipUseless
    \/ ApplyOperator
    \/ PushNumber
    \/ IgnoreInvalid
    \/ ReturnAnswer

SpecPrefix == InitPrefix /\ [][NextPrefix]_vars

---------------------------------------------------------------------------
(* Properties of evaluatePrefixValue *)

IsLiteral(t) == t # <<>> /\ \A i \in DOMAIN t : t[i] \in Digits
IsBinary(t) == t \in {<<"+">>, <<"-">>, <<"*">>}

\* Standard prefix semantics: reading ts from the left, an operator takes the
\* expression after it as its left operand and the one after that as its
\* right operand.  The result is the value read and the tokens left over.
RECURSIVE ReadPrefix(_)
ReadPrefix(ts) ==
    IF ts = <<>> THEN [ok |-> FALSE, val |-> 0, rest |-> <<>>]
    ELSE IF IsLiteral(Head(ts)) THEN [ok |-> TRUE, val |-> NumberOf(Head(ts)), rest |-> Tail(ts)]
    ELSE IF IsBinary(Head(ts))
    THEN LET l == ReadPrefix(Tail(ts))
             r == ReadPrefix(l.rest)
         IN  IF l.ok /\ r.ok
             THEN [ok |-> TRUE,
                   val |-> IF Head(ts) = <<"+">> THEN l.val + r.val
                           ELSE IF Head(ts) = <<"-">> THEN l.val - r.val
                           ELSE l.val * r.val,
                   rest |-> r.rest]
             ELSE [ok |-> FALSE, val |-> 0, rest |-> <<>>]
    ELSE [ok |-> FALSE, val |-> 0, rest |-> <<>>]

\* C10: for every well-formed prefix expression of integer literals and the
\* binary operators +, - and *, evaluatePrefixValue returns its value under
\* standard prefix semantics ("- 5 3" is 2).
C10_PrefixValue ==
    (pc = "evaluated" /\ IsSpacedLine(expression, Digits \cup {"+", "-", "*"})) =>
        LET e == ReadPrefix(SpacedWords(expression))
        IN  (e.ok /\ e.rest = <<>>) => answer = <<e.val, 1>>

====
